---- MODULE Spec2Model ----
(***************************************************************************)
(* Model of src/util/util.js: the submission renderer                      *)
(* (renderFormSubmission, renderComponentValue) and the redaction engine   *)
(* (removeProtectedFields).                                                *)
(*                                                                         *)
(* JavaScript values are tagged records [t, v].  A string is the sequence  *)
(* of its pieces: submission data strings are made of one-character        *)
(* pieces, the markup literals of the source are one piece each, so that   *)
(* `+` is \o and "the raw value occurs in the output" is a piece test.     *)
(* A property key is the sequence of its dot-separated segments:           *)
(* 'cont.child' is <<"cont", "child">>, and 'data.' + path is              *)
(* <<"data">> \o path.  An object is the sequence of its <<key, value>>    *)
(* pairs in insertion order.                                               *)
(***************************************************************************)
EXTENDS Integers, Sequences, FiniteSets

VARIABLES form, submissions, op, args, ret, before

vars == <<form, submissions, op, args, ret, before>>

(***************************************************************************)
(* JavaScript values.                                                      *)
(***************************************************************************)
Undefined == [t |-> "undefined", v |-> <<>>]
Str(pieces) == [t |-> "string", v |-> pieces]
Num(n) == [t |-> "number", v |-> n]
Bool(b) == [t |-> "boolean", v |-> b]
Arr(items) == [t |-> "array", v |-> items]
Obj(pairs) == [t |-> "object", v |-> pairs]

EmptyStr == Str(<<>>)

\* 'a.b' as a string value: the segments with '.' between them.
RECURSIVE Dotted(_)
Dotted(key) ==
  IF key = <<>> THEN <<>>
  ELSE IF Len(key) = 1 THEN <<key[1]>>
  ELSE <<key[1], ".">> \o Dotted(Tail(key))

KeyStr(key) == Str(Dotted(key))

\* The property key of array index i (0-based).
IndexNames ==
  <<"0", "1", "2", "3", "4", "5", "6", "7", "8", "9", "10", "11", "12", "13",
    "14", "15", "16", "17", "18", "19", "20", "21", "22", "23", "24", "25",
    "26", "27", "28", "29">>

IndexKey(i) == <<IndexNames[i + 1]>>

IsIndexOf(key, n) == \E i \in 0..(n - 1) : IndexKey(i) = key

IndexOf(key, n) == CHOOSE i \in 0..(n - 1) : IndexKey(i) = key

\* !!x
ToBoolean(x) ==
  CASE x.t = "undefined" -> FALSE
    [] x.t = "string" -> x.v /= <<>>
    [] x.t = "number" -> x.v /= 0
    [] x.t = "boolean" -> x.v
    [] OTHER -> TRUE

\* Number.prototype.toString for the numbers of the model.
NumStr(n) == <<IndexNames[n + 1]>>

RECURSIVE ToStringPieces(_)
RECURSIVE JoinPieces(_, _)
\* Array.prototype.join: the elements' strings ('' for undefined) with sep between.
JoinPieces(items, sep) ==
  IF items = <<>> THEN <<>>
  ELSE LET head == IF items[1].t = "undefined" THEN <<>> ELSE ToStringPieces(items[1])
       IN IF Len(items) = 1 THEN head
          ELSE head \o sep \o JoinPieces(Tail(items), sep)

\* String(x), as applied by `+` with a string and by x.toString().
ToStringPieces(x) ==
  CASE x.t = "undefined" -> <<"undefined">>
    [] x.t = "string" -> x.v
    [] x.t = "number" -> NumStr(x.v)
    [] x.t = "boolean" -> IF x.v THEN <<"true">> ELSE <<"false">>
    [] x.t = "array" -> JoinPieces(x.v, <<",">>)
    [] OTHER -> <<"[object Object]">>

ToString(x) == Str(ToStringPieces(x))

Join(items, sep) == Str(JoinPieces(items, sep))

RECURSIVE PiecesLength(_)
PiecesLength(pieces) ==
  IF pieces = <<>> THEN 0 ELSE Len(pieces[1]) + PiecesLength(Tail(pieces))

HasLength(x) == x.t \in {"string", "array"}

\* x.length, for the values that have one.
Length(x) == IF x.t = "string" THEN PiecesLength(x.v) ELSE Len(x.v)

\* a === b (two distinct arrays or objects are never identical).
StrictEq(a, b) ==
  /\ a.t = b.t
  /\ a.t \in {"undefined", "string", "number", "boolean"}
  /\ a.v = b.v

\* The one element of a singleton.  Only({e(x) : x \in {v}}) is e with x
\* bound to the value of v, computed once.
Only(S) == CHOOSE y \in S : TRUE

(***************************************************************************)
(* Objects as sequences of <<key, value>> pairs.                           *)
(***************************************************************************)
HasOwn(pairs, key) == \E i \in 1..Len(pairs) : pairs[i][1] = key

Lookup(pairs, key) ==
  pairs[CHOOSE i \in 1..Len(pairs) : pairs[i][1] = key][2]

\* pairs[key] = value: an existing key keeps its place, a new one is appended.
Put(pairs, key, value) ==
  IF HasOwn(pairs, key)
  THEN [i \in 1..Len(pairs) |->
          IF pairs[i][1] = key THEN <<key, value>> ELSE pairs[i]]
  ELSE Append(pairs, <<key, value>>)

RECURSIVE Without(_, _)
\* delete pairs[key]
Without(pairs, key) ==
  IF pairs = <<>> THEN <<>>
  ELSE IF pairs[1][1] = key THEN Without(Tail(pairs), key)
  ELSE <<pairs[1]>> \o Without(Tail(pairs), key)

\* key in Object(x)
HasProp(x, key) ==
  CASE x.t = "object" -> HasOwn(x.v, key)
    [] x.t \in {"array", "string"} -> IsIndexOf(key, Len(x.v))
    [] OTHER -> FALSE

\* x[key]
Prop(x, key) ==
  IF ~HasProp(x, key) THEN Undefined
  ELSE CASE x.t = "object" -> Lookup(x.v, key)
         [] x.t = "array" -> x.v[IndexOf(key, Len(x.v)) + 1]
         [] OTHER -> Str(<<x.v[IndexOf(key, Len(x.v)) + 1]>>)

\* What _.each and _.map visit: <<key, value>> pairs, in order.
Entries(x) ==
  CASE x.t = "object" -> x.v
    [] x.t = "array" -> [i \in 1..Len(x.v) |-> <<IndexKey(i - 1), x.v[i]>>]
    [] x.t = "string" -> [i \in 1..Len(x.v) |-> <<IndexKey(i - 1), Str(<<x.v[i]>>)>>]
    [] OTHER -> <<>>

\* toPath: 'a.b' is the keys 'a' and 'b'.
ToPath(key) == [i \in 1..Len(key) |-> <<key[i]>>]

RECURSIVE BaseGet(_, _)
BaseGet(object, path) ==
  IF path = <<>> THEN object
  ELSE IF object.t = "undefined" THEN Undefined
  ELSE BaseGet(Prop(object, path[1]), Tail(path))

\* _.get(object, key): a property named by the whole key wins over the path.
Get(object, key) ==
  IF object.t = "undefined" THEN Undefined
  ELSE IF HasProp(object, key) THEN Prop(object, key)
  ELSE BaseGet(object, ToPath(key))

RECURSIVE BaseSet(_, _, _)
\* The walk of _.set: an absent link on the way is created as an object; a
\* primitive on the way stops the walk.  (A named property set on an array is
\* not representable here: the forms of this model put no signature under a
\* datagrid, so the walk never meets an array.)
BaseSet(nested, path, value) ==
  IF nested.t /= "object" THEN nested
  ELSE IF Len(path) = 1 THEN Obj(Put(nested.v, path[1], value))
  ELSE LET cur == Prop(nested, path[1])
           link == IF cur.t = "undefined" THEN Obj(<<>>) ELSE cur
       IN Obj(Put(nested.v, path[1], BaseSet(link, Tail(path), value)))

\* _.set(object, key, value)
Set(object, key, value) ==
  IF object.t = "undefined" THEN object
  ELSE IF HasProp(object, key) THEN BaseSet(object, <<key>>, value)
  ELSE BaseSet(object, ToPath(key), value)

(***************************************************************************)
(* delete-property: deleteProp(path)(object) walks the path and deletes    *)
(* the last key; a missing link on the way leaves the object as it is.     *)
(***************************************************************************)
RECURSIVE BaseDelete(_, _)
BaseDelete(nested, path) ==
  IF nested.t /= "object" THEN nested
  ELSE IF ~HasOwn(nested.v, path[1]) THEN nested
  ELSE IF Len(path) = 1 THEN Obj(Without(nested.v, path[1]))
  ELSE Obj(Put(nested.v, path[1], BaseDelete(Lookup(nested.v, path[1]), Tail(path))))

deleteProp(object, key) == BaseDelete(object, ToPath(key))

(***************************************************************************)
(* Component definitions and the walk over a form (formio-utils).          *)
(***************************************************************************)
Component(key, type) ==
  [key |-> key, type |-> type, label |-> "", placeholder |-> "",
   multiple |-> FALSE, protected |-> FALSE,
   hasValues |-> FALSE, values |-> <<>>, hasData |-> FALSE, dataValues |-> <<>>,
   enableDate |-> FALSE, enableTime |-> FALSE, format |-> "",
   components |-> <<>>]

IsTree(component) == component.type \in {"container", "datagrid"}

NewPath(component, path) ==
  IF component.key /= "" THEN path \o <<component.key>> ELSE <<>>

SubPath(component, path) ==
  IF component.key /= "" /\ IsTree(component) THEN NewPath(component, path) ELSE path

RECURSIVE eachComponent(_, _, _)
\* The <<path, component>> pairs the walk hands to its callback, in order.
eachComponent(components, includeAll, path) ==
  IF components = <<>> THEN <<>>
  ELSE LET component == components[1]
           hasComps == component.components /= <<>>
           visit == IF includeAll \/ IsTree(component) \/ ~hasComps
                    THEN << <<NewPath(component, path), component>> >>
                    ELSE <<>>
           below == IF hasComps
                    THEN eachComponent(component.components, includeAll,
                                       SubPath(component, path))
                    ELSE <<>>
       IN visit \o below \o eachComponent(Tail(components), includeAll, path)

RECURSIVE FlattenPairs(_, _)
FlattenPairs(visited, flattened) ==
  IF visited = <<>> THEN flattened
  ELSE FlattenPairs(Tail(visited), Put(flattened, visited[1][1], visited[1][2]))

\* flattened[path] = component, for every component the walk visits.
flattenComponents(components) ==
  FlattenPairs(eachComponent(components, FALSE, <<>>), <<>>)

RECURSIVE Shared(_, _, _)
\* The flattened map holds the form's own component objects: an attribute
\* written through the map is written on the form.
Shared(components, flattened, path) ==
  [i \in 1..Len(components) |->
     LET component == components[i]
         p == NewPath(component, path)
         own == IF HasOwn(flattened, p)
                THEN [component EXCEPT !.multiple = Lookup(flattened, p).multiple]
                ELSE component
     IN [own EXCEPT !.components =
           Shared(component.components, flattened, SubPath(component, path))]]

(***************************************************************************)
(* renderComponentValue.  The result carries, besides label and value,     *)
(* the flattened map as the call leaves it (the call writes on it) and     *)
(* the keys for which the multiplicity branch was entered, in order.       *)
(***************************************************************************)
Protected == Str(<<"--- PROTECTED ---">>)

Password == Str(<<"--- PASSWORD ---">>)

TableOpen == "<table border=\"1\" style=\"width:100%\">"

TimeFormat == " hh:mm:ss A"

\* String.prototype.toUpperCase on the date patterns of the model.
ToUpperCase(format) ==
  CASE format = "yyyy-MM-dd" -> "YYYY-MM-DD"
    [] format = "" -> ""
    [] OTHER -> format

\* What the data holds as a well-formed date.
IsDate(value) == value.t = "string" /\ value.v /= <<>> /\ value.v[1] = "2"

\* moment(value).format(dateFormat): the pattern applied to the date, or
\* moment's marker for a value it cannot read.
MomentFormat(value, dateFormat) ==
  IF IsDate(value)
  THEN Str(<<"moment(">> \o value.v \o <<").format(", dateFormat, ")">>)
  ELSE Str(<<"Invalid date">>)

Result(label, value, components, entered) ==
  [label |-> label, value |-> value, components |-> components, entered |-> entered]

\* component.label || component.placeholder || component.key
LabelOf(component) ==
  IF component.label /= "" THEN Str(<<component.label>>)
  ELSE IF component.placeholder /= "" THEN Str(<<component.placeholder>>)
  ELSE IF component.key /= "" THEN Str(<<component.key>>) ELSE EmptyStr

\* The option list the lookup searches.
OptionValues(component) ==
  IF component.hasValues THEN component.values
  ELSE IF component.hasData /\ component.dataValues /= <<>> THEN component.dataValues
  ELSE <<>>

RECURSIVE FindOption(_, _, _)
\* for (var i in values): the label of the first entry that === value.
FindOption(values, value, otherwise) ==
  IF values = <<>> THEN otherwise
  ELSE IF StrictEq(values[1].value, value) THEN values[1].label
  ELSE FindOption(Tail(values), value, otherwise)

\* The columns of a datagrid: the components named by the keys of the first row.
RECURSIVE Columns(_, _)
Columns(entries, components) ==
  IF entries = <<>> THEN <<>>
  ELSE (IF HasOwn(components, entries[1][1])
        THEN <<Lookup(components, entries[1][1])>> ELSE <<>>)
       \o Columns(Tail(entries), components)

RECURSIVE ColumnHeaders(_)
ColumnHeaders(columns) ==
  IF columns = <<>> THEN <<>>
  ELSE LET column == columns[1]
           subLabel == IF column.label /= "" THEN column.label ELSE column.key
       IN <<"<th style=\"padding: 5px 10px;\">", subLabel, "</th>">>
          \o ColumnHeaders(Tail(columns))

\* join() without its argument.
SeparatorDefault == <<",">>

\* .join(', ')
Separator == <<", ">>

RECURSIVE renderComponentValue(_, _, _)
RECURSIVE MapSubValues(_, _, _)
RECURSIVE ContainerRows(_, _, _)
RECURSIVE GridCells(_, _, _)
RECURSIVE GridRows(_, _, _)

\* _.map(value, ...) of the multiplicity branch: each element rendered as the
\* value of key in an object of its own.
MapSubValues(entries, key, components) ==
  IF entries = <<>>
  THEN [values |-> <<>>, components |-> components, entered |-> <<>>]
  ELSE Only({Only({
         [values |-> <<sub.value>> \o rest.values,
          components |-> rest.components,
          entered |-> sub.entered \o rest.entered] :
         rest \in {MapSubValues(Tail(entries), key, sub.components)}}) :
         sub \in {renderComponentValue(Obj(<< <<key, entries[1][2]>> >>),
                                       key, components)}})

\* The rows of a container: every key of the nested scope rendered against
\* the same flattened map.
ContainerRows(entries, value, components) ==
  IF entries = <<>>
  THEN [pieces |-> <<>>, components |-> components, entered |-> <<>>]
  ELSE Only({Only({
         [pieces |->
            <<"<tr>", "<th style=\"text-align:right;padding: 5px 10px;\">">>
            \o ToStringPieces(sub.label)
            \o <<"</th>", "<td style=\"width:100%;padding:5px 10px;\">">>
            \o ToStringPieces(sub.value)
            \o <<"</td>", "</tr>">> \o rest.pieces,
          components |-> rest.components,
          entered |-> sub.entered \o rest.entered] :
         rest \in {ContainerRows(Tail(entries), value, sub.components)}}) :
         sub \in {renderComponentValue(value, entries[1][1], components)}})

\* The cells of one datagrid row.
GridCells(columns, subValue, components) ==
  IF columns = <<>>
  THEN [pieces |-> <<>>, components |-> components, entered |-> <<>>]
  ELSE Only({Only({
         [pieces |->
            <<"<td style=\"padding:5px 10px;\">">> \o ToStringPieces(sub.value)
            \o <<"</td>">> \o rest.pieces,
          components |-> rest.components,
          entered |-> sub.entered \o rest.entered] :
         rest \in {GridCells(Tail(columns), subValue, sub.components)}}) :
         sub \in {renderComponentValue(subValue, <<columns[1].key>>, components)}})

GridRows(entries, columns, components) ==
  IF entries = <<>>
  THEN [pieces |-> <<>>, components |-> components, entered |-> <<>>]
  ELSE Only({Only({
         [pieces |-> <<"<tr>">> \o row.pieces \o <<"</tr>">> \o rest.pieces,
          components |-> rest.components,
          entered |-> row.entered \o rest.entered] :
         rest \in {GridRows(Tail(entries), columns, row.components)}}) :
         row \in {GridCells(columns, entries[1][2], components)}})

\* case 'container'
ContainerCase(value, components) ==
  Only({[value |-> Str(<<TableOpen>> \o rows.pieces \o <<"</table>">>),
         components |-> rows.components, entered |-> rows.entered] :
        rows \in {ContainerRows(Entries(value), value, components)}})

\* case 'datagrid'
DatagridCase(value, components) ==
  Only({Only({
    [value |-> Str(<<TableOpen, "<tr>">> \o ColumnHeaders(columns)
                   \o <<"</tr>">> \o rows.pieces \o <<"</table>">>),
     components |-> rows.components, entered |-> rows.entered] :
    rows \in {GridRows(Entries(value), columns, components)}}) :
    columns \in {IF HasLength(value) /\ Length(value) > 0
                 THEN Columns(Entries(Prop(value, IndexKey(0))), components)
                 ELSE <<>>}})

\* case 'datetime'
DatetimeCase(component, value) ==
  LET date == IF component.enableDate THEN ToUpperCase(component.format) ELSE ""
      dateFormat == IF component.enableTime THEN date \o TimeFormat ELSE date
  IN IF dateFormat /= "" THEN MomentFormat(value, dateFormat) ELSE value

\* switch (component.type): the value, the map and the branch entries it leaves.
TypeDispatch(component, value, components) ==
  LET plain(v) == [value |-> v, components |-> components, entered |-> <<>>]
  IN CASE component.type = "password" -> plain(Password)
       [] component.type = "address" ->
            plain(IF ToBoolean(value) THEN Prop(value, <<"formatted_address">>)
                  ELSE EmptyStr)
       [] component.type = "signature" ->
            plain(Str(<<"<img src=\"">> \o ToStringPieces(value) \o <<"\" />">>))
       [] component.type = "container" -> ContainerCase(value, components)
       [] component.type = "datagrid" -> DatagridCase(value, components)
       [] component.type = "datetime" -> plain(DatetimeCase(component, value))
       [] component.type \in {"radio", "select", "selectboxes"} ->
            plain(FindOption(OptionValues(component), value, value))
       [] OTHER -> plain(value)

\* if (component.protected) compValue.value = '--- PROTECTED ---'
ProtectedOverride(component, value) ==
  IF component.protected THEN Protected ELSE value

\* compValue.value ? compValue.value.toString() : ''
EnsureString(value) == IF ToBoolean(value) THEN ToString(value) ELSE EmptyStr

\* The lookup without the default for a missing value.
RawValueNoDefault(data, key) == Get(data, key)

\* var value = _.get(data, key); if (!value) value = ''
RawValue(data, key) ==
  Only({IF ToBoolean(value) THEN value ELSE EmptyStr : value \in {Get(data, key)}})

\* if (component.multiple): the flag is cleared on the component, then every
\* element is rendered and the results are joined.
MultipleBranch(component, value, key, components) ==
  Only({Result(LabelOf(component), Join(subs.values, Separator),
               subs.components, <<key>> \o subs.entered) :
        subs \in {MapSubValues(Entries(value), key,
                               Put(components, key,
                                   [component EXCEPT !.multiple = FALSE]))}})

SingleValue(component, value, components) ==
  Only({Result(LabelOf(component),
               EnsureString(ProtectedOverride(component, typed.value)),
               typed.components, typed.entered) :
        typed \in {TypeDispatch(component, value, components)}})

renderComponentValue(data, key, components) ==
  Only({IF ~HasOwn(components, key)
        THEN Result(KeyStr(key), value, components, <<>>)
        ELSE Only({IF component.multiple
                   THEN MultipleBranch(component, value, key, components)
                   ELSE SingleValue(component, value, components) :
                   component \in {Lookup(components, key)}}) :
        value \in {RawValue(data, key)}})

(***************************************************************************)
(* renderFormSubmission                                                    *)
(***************************************************************************)
RECURSIVE SubmissionRows(_, _, _)
\* _.each(comps, ...): one row per flattened component that is no container,
\* button or hidden field.
SubmissionRows(entries, data, comps) ==
  IF entries = <<>> THEN [pieces |-> <<>>, components |-> comps]
  ELSE IF entries[1][2].type \in {"container", "button", "hidden"}
  THEN SubmissionRows(Tail(entries), data, comps)
  ELSE Only({Only({
         [pieces |->
            (IF cmpValue.value.t = "string"
             THEN <<"<tr>", "<th style=\"padding: 5px 10px;\">">>
                  \o ToStringPieces(cmpValue.label)
                  \o <<"</th>", "<td style=\"width:100%;padding:5px 10px;\">">>
                  \o ToStringPieces(cmpValue.value)
                  \o <<"</td>", "</tr>">>
             ELSE <<>>) \o rest.pieces,
          components |-> rest.components] :
         rest \in {SubmissionRows(Tail(entries), data, cmpValue.components)}}) :
         cmpValue \in {renderComponentValue(data, entries[1][1], comps)}})

renderFormSubmission(data, components) ==
  Only({Only({
    [value |-> Str(<<TableOpen>> \o rows.pieces \o <<"</table>">>),
     components |-> rows.components] :
    rows \in {SubmissionRows(comps, data, comps)}}) :
    comps \in {flattenComponents(components)}})

(***************************************************************************)
(* removeProtectedFields                                                   *)
(***************************************************************************)
SignatureMin == 25

\* The threshold taken inclusively: data.length <= 25.
MaskValueInclusive(data) ==
  IF ~ToBoolean(data) \/ (HasLength(data) /\ Length(data) <= SignatureMin)
  THEN EmptyStr ELSE Str(<<"YES">>)

\* The guard for missing data inverted: (data && data.length < 25) ? '' : 'YES'.
MaskValueMissingAsSigned(data) ==
  IF ToBoolean(data) /\ (HasLength(data) /\ Length(data) < SignatureMin)
  THEN EmptyStr ELSE Str(<<"YES">>)

\* (!data || (data.length < 25)) ? '' : 'YES'
MaskValue(data) ==
  IF ~ToBoolean(data) \/ (HasLength(data) /\ Length(data) < SignatureMin)
  THEN EmptyStr ELSE Str(<<"YES">>)

RECURSIVE ModifyFields(_, _)
\* The rule list: delete for a protected component, mask for a signature
\* under 'index', each bound to 'data.' + path.
ModifyFields(visited, action) ==
  IF visited = <<>> THEN <<>>
  ELSE LET path == <<"data">> \o visited[1][1]
           component == visited[1][2]
           rule == IF component.protected
                   THEN << [kind |-> "delete", path |-> path] >>
                   ELSE IF component.type = "signature" /\ action = "index"
                   THEN << [kind |-> "mask", path |-> path] >>
                   ELSE <<>>
       IN rule \o ModifyFields(Tail(visited), action)

\* modifyField(submission)
ModifyField(rule, sub) ==
  IF rule.kind = "delete" THEN deleteProp(sub, rule.path)
  ELSE Set(sub, rule.path, MaskValue(Get(sub, rule.path)))

RECURSIVE ApplyFields(_, _)
ApplyFields(rules, sub) ==
  IF rules = <<>> THEN sub
  ELSE ApplyFields(Tail(rules), ModifyField(rules[1], sub))

\* The submissions as the call leaves them.
removeProtectedFields(components, action, subs) ==
  LET modifyFields == ModifyFields(eachComponent(components, TRUE, <<>>), action)
  IN [i \in 1..Len(subs) |-> ApplyFields(modifyFields, subs[i])]

(***************************************************************************)
(* The forms and submissions of the model.                                 *)
(***************************************************************************)
MaxList == 2

MaxRows == 2

MaxBatch == 2

Types ==
  {"textfield", "hidden", "password", "address", "signature", "container",
   "datagrid", "datetime", "radio", "select", "selectboxes"}

Option(value, label) == [value |-> value, label |-> Str(<<label>>)]

A == Str(<<"a">>)

\* A signature payload of n characters.
Payload(n) == Str([i \in 1..n |-> "x"])

\* One top-level field f.
Field(type, multiple, protected, enableDate, enableTime) ==
  [Component("f", type) EXCEPT
     !.label = "Field", !.multiple = multiple, !.protected = protected,
     !.hasValues = type \in {"radio", "selectboxes"},
     !.values = IF type = "radio"
                THEN <<Option(A, "Alpha"), Option(Num(0), "Zero"),
                       Option(Bool(FALSE), "No")>>
                ELSE IF type = "selectboxes"
                THEN <<Option(Num(5), "Five"), Option(A, "Alpha")>>
                ELSE <<>>,
     !.hasData = type = "select",
     !.dataValues = IF type = "select"
                    THEN <<Option(EmptyStr, "None"), Option(A, "Alpha")>>
                    ELSE <<>>,
     !.enableDate = enableDate, !.enableTime = enableTime,
     !.format = IF type = "datetime" THEN "yyyy-MM-dd" ELSE ""]

FieldForms ==
  {<<Field(type, multiple, protected, FALSE, FALSE)>> :
     type \in Types, multiple \in BOOLEAN, protected \in BOOLEAN}
  \cup {<<Field("datetime", FALSE, FALSE, enableDate, enableTime)>> :
          enableDate \in BOOLEAN, enableTime \in BOOLEAN}

\* A container cont holding a text field child and a signature sig.
ContainerForms ==
  {<< [Component("cont", "container") EXCEPT
         !.protected = contProtected,
         !.components =
            << [Component("child", "textfield") EXCEPT !.protected = childProtected],
               Component("sig", "signature") >>] >> :
     contProtected \in BOOLEAN, childProtected \in BOOLEAN}

\* A datagrid grid with one column col, with or without a top-level field
\* that has the column's key.
GridForms ==
  {<< [Component("grid", "datagrid") EXCEPT
         !.components =
            << [Component("col", "textfield") EXCEPT
                  !.label = "Column", !.protected = colProtected] >>] >>
   \o (IF sibling THEN <<Component("col", "textfield")>> ELSE <<>>) :
     colProtected \in BOOLEAN, sibling \in BOOLEAN}

Forms == FieldForms \cup ContainerForms \cup GridForms

SeqsUpTo(S, n) == UNION {[1..k -> S] : k \in 0..n}

Submission(pairs) == Obj(<< << <<"data">>, Obj(pairs) >> >>)

\* Submissions without a value at f: empty, or with a key the form lacks.
LegacySubs ==
  {Submission(<<>>)}
  \cup {Submission(<< << <<"legacy">>, v >> >>) :
          v \in {Num(5), Arr(<<A, Num(0)>>), Obj(<< << <<"k">>, A >> >>)}}

\* The values a submission may hold at f.  (A multiple field is given no
\* signature payload: mapping over one renders each of its characters.)
FieldValues(type, multiple) ==
  {A, EmptyStr, Num(0), Bool(FALSE)}
  \cup {Arr(items) : items \in SeqsUpTo({A, Num(0)}, MaxList)}
  \cup (CASE type = "address" -> {Obj(<< << <<"formatted_address">>, Str(<<"h">>) >> >>)}
          [] type = "signature" /\ ~multiple ->
               {Payload(SignatureMin - 1), Payload(SignatureMin)}
          [] type = "datetime" -> {Str(<<"2", "0", "1", "6">>)}
          [] type = "container" -> {Obj(<< << <<"k">>, A >> >>)}
          [] type = "datagrid" -> {Arr(<< Obj(<< << <<"k">>, A >> >>) >>)}
          [] type \in {"radio", "select", "selectboxes"} -> {Num(5), Str(<<"b">>)}
          [] OTHER -> {})

Secrets == {Str(<<"s">>), Str(<<"t">>)}

IsFieldForm(f) == f[1].key = "f"

IsContainerForm(f) == f[1].key = "cont"

Subs(f) ==
  IF IsFieldForm(f)
  THEN {Submission(<< << <<"f">>, v >> >>) : v \in FieldValues(f[1].type, f[1].multiple)}
       \cup LegacySubs
  ELSE IF IsContainerForm(f)
  THEN {Submission(<< << <<"cont">>,
                         Obj(<< << <<"child">>, s >>, << <<"sig">>, p >> >>) >> >>) :
          s \in Secrets, p \in {Payload(SignatureMin - 1), Payload(SignatureMin)}}
       \cup {Submission(<< << <<"cont">>, Obj(<< << <<"child">>, s >> >>) >> >>) :
               s \in Secrets}
       \cup {Submission(<<>>)}
  ELSE {Submission(<< << <<"grid">>, Arr(rows) >> >>
                   \o (IF Len(f) > 1 THEN << << <<"col">>, A >> >> ELSE <<>>)) :
          rows \in SeqsUpTo({Obj(<< << <<"col">>, s >> >>) : s \in Secrets}, MaxRows)}
       \cup {Submission(<<>>)}

\* The submissions that batches of several are made of.
BatchSubs(f) ==
  IF IsFieldForm(f)
  THEN {Submission(<<>>)}
       \cup {Submission(<< << <<"f">>, v >> >>) :
               v \in IF f[1].type = "signature" /\ ~f[1].multiple
                     THEN {Payload(SignatureMin - 1), Payload(SignatureMin)}
                     ELSE {A}}
  ELSE IF IsContainerForm(f)
  THEN {Submission(<< << <<"cont">>,
                         Obj(<< << <<"child">>, Str(<<"s">>) >>,
                                << <<"sig">>, Payload(SignatureMin) >> >>) >> >>),
        Submission(<<>>)}
  ELSE {Submission(<< << <<"grid">>,
                         Arr(<< Obj(<< << <<"col">>, Str(<<"s">>) >> >>) >>) >> >>),
        Submission(<<>>)}

Batches(f) ==
  {<<s>> : s \in Subs(f)}
  \cup UNION {[1..n -> BatchSubs(f)] : n \in 2..MaxBatch}

NoResult == [label |-> EmptyStr, value |-> EmptyStr, entered |-> <<>>]

RenderKeys(components) ==
  {flattenComponents(components)[i][1] : i \in 1..Len(flattenComponents(components))}
  \cup {<<"legacy">>}

(***************************************************************************)
(* The state machine: a form, a batch of stored submissions, and the       *)
(* calls made on them.  op, args and ret record the last call, before the  *)
(* form and the submissions as that call found them.                       *)
(***************************************************************************)
Init ==
  /\ form \in Forms
  /\ submissions \in Batches(form)
  /\ op = "init"
  /\ args = [sub |-> 0, key |-> <<>>, action |-> ""]
  /\ ret = NoResult
  /\ before = [form |-> form, submissions |-> submissions]

DataOf(sub) == Get(sub, <<"data">>)

RenderComponentValue ==
  \E i \in 1..Len(submissions), key \in RenderKeys(form) :
    \E r \in {renderComponentValue(DataOf(submissions[i]), key,
                                   flattenComponents(form))} :
       /\ form' = Shared(form, r.components, <<>>)
       /\ ret' = [label |-> r.label, value |-> r.value, entered |-> r.entered]
       /\ op' = "renderComponentValue"
       /\ args' = [sub |-> i, key |-> key, action |-> ""]
       /\ before' = [form |-> form, submissions |-> submissions]
       /\ UNCHANGED submissions

RenderFormSubmission ==
  \E i \in 1..Len(submissions) :
    \E r \in {renderFormSubmission(DataOf(submissions[i]), form)} :
       /\ form' = Shared(form, r.components, <<>>)
       /\ ret' = [label |-> EmptyStr, value |-> r.value, entered |-> <<>>]
       /\ op' = "renderFormSubmission"
       /\ args' = [sub |-> i, key |-> <<>>, action |-> ""]
       /\ before' = [form |-> form, submissions |-> submissions]
       /\ UNCHANGED submissions

\* sub = 0: the call is handed the batch; sub = i: the one submission i.
RemoveProtectedFields ==
  \E action \in {"display", "index"}, i \in 0..Len(submissions) :
    /\ submissions' =
         IF i = 0 THEN removeProtectedFields(form, action, submissions)
         ELSE [submissions EXCEPT
                 ![i] = removeProtectedFields(form, action, <<submissions[i]>>)[1]]
    /\ ret' = NoResult
    /\ op' = "removeProtectedFields"
    /\ args' = [sub |-> i, key |-> <<>>, action |-> action]
    /\ before' = [form |-> form, submissions |-> submissions]
    /\ UNCHANGED form

Next == RenderComponentValue \/ RenderFormSubmission \/ RemoveProtectedFields

Spec == Init /\ [][Next]_vars

(***************************************************************************)
(* What the last call was made on.                                         *)
(***************************************************************************)
Rendered == op = "renderComponentValue"

Removed == op = "removeProtectedFields"

\* The data and the flattened map handed to the last render call.
CallData == DataOf(before.submissions[args.sub])

CallComps == flattenComponents(before.form)

CallComponent == Lookup(CallComps, args.key)

InSchema == HasOwn(CallComps, args.key)

CallRaw == Get(CallData, args.key)

\* The submissions handed to the last removeProtectedFields call.
Handed == IF args.sub = 0 THEN 1..Len(submissions) ELSE {args.sub}

Visited == eachComponent(before.form, TRUE, <<>>)

IsProperPrefix(q, p) == Len(q) < Len(p) /\ SubSeq(p, 1, Len(q)) = q

\* pieces occurs in text as a run of consecutive pieces.
Occurs(pieces, text) ==
  \E i \in 1..Len(text) :
    i + Len(pieces) - 1 <= Len(text) /\ SubSeq(text, i, i + Len(pieces) - 1) = pieces

RECURSIVE ValuesAt(_, _)
\* The values a submission holds for the component at path: the value at
\* the path, taken in every row where the way leads through a list of rows.
ValuesAt(x, path) ==
  IF path = <<>> THEN {x}
  ELSE IF x.t = "array" THEN UNION {ValuesAt(x.v[i], path) : i \in 1..Len(x.v)}
  ELSE IF x.t = "object" /\ HasOwn(x.v, <<path[1]>>)
  THEN ValuesAt(Lookup(x.v, <<path[1]>>), Tail(path))
  ELSE {}

RECURSIVE PathExists(_, _)
\* Every key of the path is there.
PathExists(x, path) ==
  path = <<>> \/ (HasProp(x, <<path[1]>>) /\ PathExists(Prop(x, <<path[1]>>), Tail(path)))

Count(seq, x) == Cardinality({i \in 1..Len(seq) : seq[i] = x})

(***************************************************************************)
(* The claims.                                                             *)
(***************************************************************************)

\* C1: for a component of the flattened schema with protected == true,
\* renderComponentValue returns exactly '--- PROTECTED ---', whatever the
\* type, the multiple flag and the raw value.
C1_ProtectedIsMasked ==
  (Rendered /\ InSchema /\ CallComponent.protected) => ret.value = Protected

\* C2: after removeProtectedFields no submission handed to it still holds
\* the original value of a protected component, at its path or, for a
\* datagrid column, in any row.
C2_ProtectedIsRemoved ==
  Removed =>
    \A k \in 1..Len(Visited), j \in Handed :
      Visited[k][2].protected =>
        ValuesAt(DataOf(before.submissions[j]), Visited[k][1])
          \cap ValuesAt(DataOf(submissions[j]), Visited[k][1]) = {}

\* C3: rendering a container or a datagrid never shows the raw value of a
\* protected child that the flattened schema registers under parent.child.
C3_NoLeakThroughComposite ==
  (Rendered /\ InSchema /\ IsTree(CallComponent)) =>
    \A k \in 1..Len(CallComps) :
      (/\ IsProperPrefix(args.key, CallComps[k][1])
       /\ CallComps[k][2].protected) =>
         \A raw \in ValuesAt(CallData, CallComps[k][1]) :
           (raw.t = "string" /\ raw.v /= <<>>) => ~Occurs(raw.v, ret.value.v)

\* What C4 says of one stored signature value.
SignatureRule(old, new) ==
  IF args.action = "index"
  THEN new = (IF Length(old) < SignatureMin THEN EmptyStr ELSE Str(<<"YES">>))
  ELSE new = old

\* C4 (as claimed): for a non-protected signature component, under 'index'
\* the stored value is overwritten with '' when its length is below 25 and
\* with 'YES' otherwise; under 'display' it is left as it was.
C4_SignatureMasked ==
  Removed =>
    \A k \in 1..Len(Visited), j \in Handed :
      LET path == <<"data">> \o Visited[k][1]
          old == Get(before.submissions[j], path)
      IN (/\ Visited[k][2].type = "signature"
          /\ ~Visited[k][2].protected
          /\ HasLength(old)) => SignatureRule(old, Get(submissions[j], path))

NoProtectedAncestor(path) ==
  \A k \in 1..Len(Visited) :
    IsProperPrefix(Visited[k][1], path) => ~Visited[k][2].protected

\* C4 (amended): the same, for a signature component that is not protected
\* and lies under no protected component.
C4_SignatureMaskedUnlessEnclosed ==
  Removed =>
    \A k \in 1..Len(Visited), j \in Handed :
      LET path == <<"data">> \o Visited[k][1]
          old == Get(before.submissions[j], path)
      IN (/\ Visited[k][2].type = "signature"
          /\ ~Visited[k][2].protected
          /\ NoProtectedAncestor(Visited[k][1])
          /\ HasLength(old)) => SignatureRule(old, Get(submissions[j], path))

\* A batch of several submissions was masked under 'index', one of them with
\* a payload of 25 characters that has become 'YES'.
C4_Witness ==
  /\ Removed /\ args.action = "index" /\ args.sub = 0 /\ Len(submissions) > 1
  /\ \E k \in 1..Len(Visited), j \in Handed :
       LET path == <<"data">> \o Visited[k][1]
           old == Get(before.submissions[j], path)
       IN /\ Visited[k][2].type = "signature"
          /\ ~Visited[k][2].protected
          /\ NoProtectedAncestor(Visited[k][1])
          /\ HasLength(old) /\ Length(old) = SignatureMin
          /\ Get(submissions[j], path) = Str(<<"YES">>)

\* C5 (as claimed): for a path absent from the data, renderComponentValue
\* returns value == '', whatever the component.
C5_AbsentIsEmpty ==
  (Rendered /\ CallRaw = Undefined) => ret.value = EmptyStr

\* The components for which an absent value renders as ''.
RendersAbsentAsEmpty(component) ==
  \/ component.multiple
  \/ /\ ~component.protected
     /\ \/ component.type \notin
             {"password", "signature", "container", "datagrid", "datetime",
              "radio", "select", "selectboxes"}
        \/ component.type = "datetime" /\ ~component.enableDate /\ ~component.enableTime
        \/ /\ component.type \in {"radio", "select", "selectboxes"}
           /\ \A n \in 1..Len(OptionValues(component)) :
                OptionValues(component)[n].value /= EmptyStr

\* C5 (amended): for a path absent from the data, the value is '' when the
\* path is not in the schema, when the component is multiple, or when it is
\* an unprotected address, plain field, datetime without date and time
\* pattern, or option field with no option whose value is ''.
C5_AbsentIsEmptyUnlessMasked ==
  (Rendered /\ CallRaw = Undefined /\ (InSchema => RendersAbsentAsEmpty(CallComponent)))
    => ret.value = EmptyStr

\* An address field without a value was rendered.
C5_Witness ==
  /\ Rendered /\ CallRaw = Undefined /\ InSchema
  /\ CallComponent.type = "address" /\ ~CallComponent.multiple
  /\ ~CallComponent.protected
  /\ ret.value = EmptyStr

\* The flattened map with the component at key declared single-valued.
SingleValued(components, key) ==
  Put(components, key, [Lookup(components, key) EXCEPT !.multiple = FALSE])

\* C6: for a multiple component whose raw value is a list of N elements the
\* value is the N elements' single-value renderings joined by ', ', and the
\* multiplicity branch is entered once for the component.
C6_MultipleJoinsSingles ==
  (Rendered /\ InSchema /\ CallComponent.multiple /\ CallRaw.t = "array") =>
    /\ ret.value =
         Str(JoinPieces(
               [n \in 1..Len(CallRaw.v) |->
                  renderComponentValue(Obj(<< <<args.key, CallRaw.v[n]>> >>), args.key,
                                       SingleValued(CallComps, args.key)).value],
               <<", ">>))
    /\ Count(ret.entered, args.key) = 1

\* A multiple field holding a list of several elements was rendered.
C6_Witness ==
  /\ Rendered /\ InSchema /\ CallComponent.multiple
  /\ CallRaw.t = "array" /\ Len(CallRaw.v) >= 2
  /\ Occurs(<<", ">>, ret.value.v)

Matches(component, raw) ==
  {n \in 1..Len(OptionValues(component)) :
     StrictEq(OptionValues(component)[n].value, raw)}

\* C7: for a radio, select or selectboxes component, the value is the label
\* of the option whose value equals the raw value, and the raw value itself
\* when no option matches; also for 0, false and ''.
C7_OptionLabel ==
  (/\ Rendered /\ InSchema
   /\ CallComponent.type \in {"radio", "select", "selectboxes"}
   /\ ~CallComponent.multiple /\ ~CallComponent.protected
   /\ CallRaw /= Undefined) =>
     IF Matches(CallComponent, CallRaw) /= {}
     THEN ret.value =
            OptionValues(CallComponent)[
              CHOOSE n \in Matches(CallComponent, CallRaw) :
                \A m \in Matches(CallComponent, CallRaw) : n <= m].label
     ELSE ret.value \in {CallRaw, ToString(CallRaw)}

\* C8: renderComponentValue and renderFormSubmission leave every component
\* definition of the schema as it was.
C8_SchemaUnchanged ==
  op \in {"renderComponentValue", "renderFormSubmission"} => form = before.form

Rules == ModifyFields(Visited, args.action)

\* C9 (as claimed): a rule applied to a submission that has nothing at the
\* rule's path leaves the submission as it was.
C9_MissingPathIsNoOp ==
  Removed =>
    \A n \in 1..Len(Rules), j \in 1..Len(before.submissions) :
      ~PathExists(before.submissions[j], Rules[n].path) =>
        ModifyField(Rules[n], before.submissions[j]) = before.submissions[j]

\* C9 (amended): a delete rule leaves such a submission as it was; a mask
\* rule writes '' at its path, creating the path, and changes nothing else.
C9_MissingPathDeleteIsNoOp ==
  Removed =>
    \A n \in 1..Len(Rules), j \in 1..Len(before.submissions) :
      ~PathExists(before.submissions[j], Rules[n].path) =>
        LET sub == before.submissions[j]
            new == ModifyField(Rules[n], sub)
        IN IF Rules[n].kind = "delete" THEN new = sub
           ELSE /\ Get(new, Rules[n].path) = EmptyStr
                /\ new /= sub
                /\ \A m \in 1..Len(Visited) :
                     LET other == <<"data">> \o Visited[m][1]
                     IN (~IsProperPrefix(other, Rules[n].path) /\ other /= Rules[n].path)
                          => Get(new, other) = Get(sub, other)

\* A batch holding a submission without a signature was masked under
\* 'index': the submission now holds '' where it held nothing.
C9_Witness ==
  /\ Removed /\ args.action = "index"
  /\ \E n \in 1..Len(Rules), j \in Handed :
       /\ Rules[n].kind = "mask"
       /\ ~PathExists(before.submissions[j], Rules[n].path)
       /\ PathExists(submissions[j], Rules[n].path)
       /\ Get(submissions[j], Rules[n].path) = EmptyStr
  /\ \E n \in 1..Len(Rules), j \in Handed :
       /\ Rules[n].kind = "delete"
       /\ ~PathExists(before.submissions[j], Rules[n].path)

\* C10: the value renderComponentValue returns is always a string.
C10_ValueIsString == Rendered => ret.value.t = "string"

====
